---- MODULE Spec2Model ----
(***************************************************************************)
(* Log dashboard (src/app.py): the line parser and the two grouping passes *)
(* of the repository.  src/app.py holds two scripts:                       *)
(*   - the dashboard ("app", lines 1-341): several uploaded files, events  *)
(*     with normalized_event and camera, the alerts-table grouping         *)
(*     (alert_groups);                                                     *)
(*   - the backup copy ("backup", lines 343-545): one uploaded file,       *)
(*     events without camera, the compressed-events table.                 *)
(* Text is modelled as a sequence of tokens.  A token is one character     *)
(* (" ", "#", "%", "-", a digit, ...) or a lexeme that no operation of the *)
(* program ever cuts (a timestamp such as "2025-09-08 07:10:00", the       *)
(* words "Battery Level -", "Low Battery", "ID:").                         *)
(***************************************************************************)
EXTENDS Integers, Sequences, FiniteSets, TLC

\* ------------------------------------------------------------------ bounds
\* most lines read in one session (all files together)
MaxLines == 3
\* most files uploaded in one session
MaxFiles == 2

\* ------------------------------------------------------- program constants
\* two alerts this many seconds apart (or more) are never grouped
AlertGapSeconds == 300
SecondsPerMinute == 60

\* ------------------------------------------------------------ text helpers
Range(s) == {s[k] : k \in 1..Len(s)}

Last(s) == s[Len(s)]

Min2(a, b) == IF b < a THEN b ELSE a

Max2(a, b) == IF b > a THEN b ELSE a

DecimalDigits == {"0", "1", "2", "3", "4", "5", "6", "7", "8", "9"}

\* characters str.isdigit() accepts but int() and float() reject: "sup2" is
\* the one character SUPERSCRIPT TWO
OtherDigits == {"sup2"}

DigitVal(c) ==
    CASE c = "0" -> 0 [] c = "1" -> 1 [] c = "2" -> 2 [] c = "3" -> 3
      [] c = "4" -> 4 [] c = "5" -> 5 [] c = "6" -> 6 [] c = "7" -> 7
      [] c = "8" -> 8 [] c = "9" -> 9

DigitChar(d) ==
    CASE d = 0 -> "0" [] d = 1 -> "1" [] d = 2 -> "2" [] d = 3 -> "3"
      [] d = 4 -> "4" [] d = 5 -> "5" [] d = 6 -> "6" [] d = 7 -> "7"
      [] d = 8 -> "8" [] d = 9 -> "9"

\* str.strip(): leading and trailing blanks removed
RECURSIVE LStrip(_)
LStrip(s) == IF s # <<>> /\ s[1] = " " THEN LStrip(Tail(s)) ELSE s

RECURSIVE RStrip(_)
RStrip(s) ==
    IF s # <<>> /\ s[Len(s)] = " " THEN RStrip(SubSeq(s, 1, Len(s) - 1)) ELSE s

Strip(s) == RStrip(LStrip(s))

\* str.rstrip('%'): every trailing "%" removed
RECURSIVE RStripPercent(_)
RStripPercent(s) ==
    IF s # <<>> /\ s[Len(s)] = "%"
    THEN RStripPercent(SubSeq(s, 1, Len(s) - 1))
    ELSE s

\* str.find(sep): the first position where sep occurs in s, 0 when it does not
Find(s, sep) ==
    LET hits == {k \in 1..(Len(s) - Len(sep) + 1) :
                    SubSeq(s, k, k + Len(sep) - 1) = sep}
    IN  IF hits = {} THEN 0 ELSE CHOOSE k \in hits : \A m \in hits : k <= m

\* `sep in s`
Contains(s, sep) == Find(s, sep) # 0

\* str.split(sep): the pieces between the occurrences of sep, left to right
RECURSIVE Split(_, _)
Split(s, sep) ==
    LET k == Find(s, sep)
    IN  IF k = 0
        THEN <<s>>
        ELSE <<SubSeq(s, 1, k - 1)>> \o Split(SubSeq(s, k + Len(sep), Len(s)), sep)

\* sep.join(parts)
RECURSIVE Join(_, _)
Join(parts, sep) ==
    IF parts = <<>> THEN <<>>
    ELSE IF Len(parts) = 1 THEN parts[1]
    ELSE parts[1] \o sep \o Join(Tail(parts), sep)

\* str.isdigit(): not empty and every character a digit (of any script)
IsDigit(s) == s # <<>> /\ \A k \in 1..Len(s) : s[k] \in DecimalDigits \cup OtherDigits

IsDecimal(s) == s # <<>> /\ \A k \in 1..Len(s) : s[k] \in DecimalDigits

RECURSIVE DecimalValue(_)
DecimalValue(s) ==
    IF s = <<>> THEN 0
    ELSE 10 * DecimalValue(SubSeq(s, 1, Len(s) - 1)) + DigitVal(s[Len(s)])

\* str(n) for an integer n
RECURSIVE NatToStr(_)
NatToStr(n) ==
    IF n < 10 THEN <<DigitChar(n)>> ELSE NatToStr(n \div 10) \o <<DigitChar(n % 10)>>

IntToStr(n) == IF n < 0 THEN <<"-">> \o NatToStr(-n) ELSE NatToStr(n)

\* int(s) and float(s) of a string: <<value>>, or <<>> for ValueError; blanks
\* around the number and one sign before it are accepted
ParseNumber(s) ==
    LET t == Strip(s)
        body == IF t # <<>> /\ t[1] \in {"-", "+"} THEN Tail(t) ELSE t
    IN  IF ~IsDecimal(body) THEN <<>>
        ELSE IF t[1] = "-" THEN <<-DecimalValue(body)>>
        ELSE <<DecimalValue(body)>>

\* ------------------------------------------------------------- timestamps
\* A timestamp is a number of seconds counted from 2025-09-08 00:00:00.
\* datetime.strptime(s, '%Y-%m-%d %H:%M:%S'): <<seconds>>, or <<>> for
\* ValueError.  The field must be one whole date-time; the directives accept
\* numbers without their leading zero; month 13 is no date.
Strptime(timestamp_str) ==
    IF Len(timestamp_str) # 1 THEN <<>>
    ELSE CASE timestamp_str[1] = "2025-09-08 07:10:00" -> <<25800>>
           [] timestamp_str[1] = "2025-9-8 7:10:00" -> <<25800>>
           [] timestamp_str[1] = "2025-09-08 07:12:00" -> <<25920>>
           [] timestamp_str[1] = "2025-09-08 07:15:00" -> <<26100>>
           [] OTHER -> <<>>

\* dt.strftime('%Y-%m-%d %H:%M:%S'): every number zero-padded
Strftime(dt) ==
    CASE dt = 25800 -> <<"2025-09-08 07:10:00">>
      [] dt = 25920 -> <<"2025-09-08 07:12:00">>
      [] dt = 26100 -> <<"2025-09-08 07:15:00">>

\* timestamp.date(), as a day number
DateOf(dt) == dt \div 86400

\* ---------------------------------------------------------- the line parser
\* [p.strip() for p in parts[2:] if p.strip()]
EventParts(parts) ==
    LET stripped == [k \in 1..(Len(parts) - 2) |-> Strip(parts[k + 2])]
    IN  SelectSeq(stripped, LAMBDA p : p # <<>>)

\* ' '.join(event_parts) if event_parts else 'Unknown'
FullEvent(parts) ==
    IF EventParts(parts) # <<>> THEN Join(EventParts(parts), <<" ">>) ELSE <<"Unknown">>

BatterySuffix == <<" ", "-", " ", "Battery Level -", " ">>

\* a normalization that cuts at the last " - Battery Level - " of the event
\* and not at the first (rsplit for split)
NormalizedEventLastSuffix(full_event) ==
    LET hits == {k \in 1..(Len(full_event) - Len(BatterySuffix) + 1) :
                    SubSeq(full_event, k, k + Len(BatterySuffix) - 1) = BatterySuffix}
    IN  IF hits = {} THEN full_event
        ELSE Strip(SubSeq(full_event, 1, (CHOOSE k \in hits : \A m \in hits : k >= m) - 1))

\* the event without its " - Battery Level - N%" suffix
NormalizedEvent(full_event) ==
    IF Contains(full_event, BatterySuffix)
    THEN Strip(Split(full_event, BatterySuffix)[1])
    ELSE full_event

\* full_event.split('Battery Level -')[-1].strip().rstrip('%').strip()
BatteryStr(full_event) ==
    Strip(RStripPercent(Strip(Last(Split(full_event, <<"Battery Level -">>)))))

\* battery of the dashboard: [raised, battery], battery is <<>> for None and
\* <<n>> for n.  int() raises ValueError on a digit that is no decimal digit.
Battery(full_event) ==
    IF ~Contains(full_event, <<"Battery Level -">>)
    THEN [raised |-> FALSE, battery |-> <<>>]
    ELSE IF ~IsDigit(BatteryStr(full_event))
    THEN [raised |-> FALSE, battery |-> <<>>]
    ELSE IF ~IsDecimal(BatteryStr(full_event))
    THEN [raised |-> TRUE, battery |-> <<>>]
    ELSE [raised |-> FALSE, battery |-> <<DecimalValue(BatteryStr(full_event))>>]

\* battery of the backup copy: int() inside its own try, None when it raises
BatteryBackup(event) ==
    IF ~Contains(event, <<"Battery Level -">>) THEN <<>>
    ELSE ParseNumber(BatteryStr(event))

IsSixDigits(s, k) ==
    k + 5 <= Len(s) /\ \A m \in k..(k + 5) : s[m] \in DecimalDigits

\* re.search(r'#ID:(\d{6})-\d{6}', line): <<group 1>> of the leftmost match,
\* <<>> when there is none
SearchId(line) ==
    LET hits == {k \in 1..Len(line) :
                    /\ k + 14 <= Len(line)
                    /\ line[k] = "#"
                    /\ line[k + 1] = "ID:"
                    /\ IsSixDigits(line, k + 2)
                    /\ line[k + 8] = "-"
                    /\ IsSixDigits(line, k + 9)}
    IN  IF hits = {} THEN <<>>
        ELSE LET k == CHOOSE h \in hits : \A m \in hits : h <= m
             IN  <<SubSeq(line, k + 2, k + 7)>>

\* re.search(r'(\d{6})', filename), then group(1) or 'Unknown'
DefaultCamera(filename) ==
    LET hits == {k \in 1..Len(filename) : IsSixDigits(filename, k)}
    IN  IF hits = {} THEN <<"Unknown">>
        ELSE LET k == CHOOSE h \in hits : \A m \in hits : h <= m
             IN  SubSeq(filename, k, k + 5)

\* a slip in the precedence: the file name's camera wins over the line's id
CameraFilenameFirst(line, default_camera) ==
    IF default_camera # <<"Unknown">> THEN default_camera
    ELSE IF SearchId(line) # <<>> THEN SearchId(line)[1]
    ELSE default_camera

\* id_match.group(1) if id_match else default_camera
Camera(line, default_camera) ==
    IF SearchId(line) # <<>> THEN SearchId(line)[1] ELSE default_camera

\* a slip in the error handling: strptime's ValueError is swallowed on its own
\* and the record is appended without a timestamp
ParseLineKeepsBadTimestamp(line, default_camera) ==
    IF line = <<>> \/ ~Contains(line, <<"#">>) THEN <<>>
    ELSE LET parts == Split(line, <<"#">>)
             full_event == FullEvent(parts)
             dt == Strptime(Strip(parts[1]))
         IN  IF Battery(full_event).raised THEN <<>>
             ELSE <<[timestamp |-> IF dt = <<>> THEN 0 ELSE dt[1],
                     event |-> full_event,
                     normalized_event |-> NormalizedEvent(full_event),
                     battery |-> Battery(full_event).battery,
                     camera |-> Camera(line, default_camera)]>>

\* One pass of the dashboard's `for line in lines` body on the stripped line:
\* <<record>> when the line is appended to all_data, <<>> when it is skipped
\* (`continue` at the guard or in the bare except).
ParseLine(line, default_camera) ==
    IF line = <<>> \/ ~Contains(line, <<"#">>) THEN <<>>
    ELSE LET parts == Split(line, <<"#">>)
             full_event == FullEvent(parts)
             dt == Strptime(Strip(parts[1]))
         IN  IF dt = <<>> THEN <<>>
             ELSE IF Battery(full_event).raised THEN <<>>
             ELSE <<[timestamp |-> dt[1],
                     event |-> full_event,
                     normalized_event |-> NormalizedEvent(full_event),
                     battery |-> Battery(full_event).battery,
                     camera |-> Camera(line, default_camera)]>>

\* One pass of the backup copy's `for line in lines` body
ParseLineBackup(line) ==
    IF line = <<>> \/ ~Contains(line, <<"#">>) THEN <<>>
    ELSE LET parts == Split(line, <<"#">>)
             event == FullEvent(parts)
             dt == Strptime(Strip(parts[1]))
         IN  IF dt = <<>> THEN <<>>
             ELSE <<[timestamp |-> dt[1],
                     event |-> event,
                     battery |-> BatteryBackup(event)]>>

\* ------------------------------------------------------------- the inputs
IdField(digits) == <<"#", "ID:">> \o digits \o <<"-", "0", "0", "0", "0", "0", "0">>

Device1 == <<"0", "0", "7", "1", "2", "0">>

Device2 == <<"0", "0", "7", "1", "2", "1">>

BatteryText(digits) == <<" ", "-", " ", "Battery Level -", " ">> \o digits \o <<"%">>

\* The lines a log file is made of.  Times: 07:10:00, 07:12:00 (120 s later)
\* and 07:15:00 (300 s after the first, 180 s after the second).
LineSet ==
    { \* Low Battery 92% at 07:10:00, camera 007120 (numbers not zero-padded)
      <<"2025-9-8 7:10:00", " ">> \o IdField(Device1) \o <<" ", "#", "Low Battery">>
          \o BatteryText(<<"9", "2">>),
      \* Low Battery 100% at 07:15:00, camera 007120 (two blanks before 100)
      <<"2025-09-08 07:15:00", " ">> \o IdField(Device1) \o <<" ", "#", "Low Battery">>
          \o BatteryText(<<" ", "1", "0", "0">>),
      \* Error 50% at 07:10:00, camera 007120
      <<"2025-09-08 07:10:00", " ">> \o IdField(Device1) \o <<" ", "#", "Error">>
          \o BatteryText(<<"5", "0">>),
      \* the same Error 50% at 07:12:00 from camera 007121
      <<"2025-09-08 07:12:00", " ">> \o IdField(Device2) \o <<" ", "#", "Error">>
          \o BatteryText(<<"5", "0">>),
      \* Card Error at 07:15:00: no battery, and an id field of four digits
      <<"2025-09-08 07:15:00", " ", "#", "ID:", "7", "1", "2", "0", " ", "#",
        "Card", " ", "Error">>,
      \* USB Remove 150% at 07:12:00, camera 007120
      <<" ", "2025-09-08 07:12:00", " ">> \o IdField(Device1) \o <<" ", "#", "USB Remove">>
          \o BatteryText(<<"1", "5", "0">>),
      \* Low Battery at 07:12:00 with the battery text "NA"
      <<"2025-09-08 07:12:00", " ">> \o IdField(Device1) \o <<" ", "#", "Low Battery">>
          \o BatteryText(<<"N", "A">>),
      \* Low Battery at 07:12:00 with the battery text SUPERSCRIPT TWO
      <<"2025-09-08 07:12:00", " ">> \o IdField(Device1) \o <<" ", "#", "Low Battery">>
          \o BatteryText(<<"sup2">>),
      \* Battery Charging at 07:10:00, camera 007121, with the battery text twice
      <<"2025-09-08 07:10:00", " ">> \o IdField(Device2) \o <<" ", "#", "Battery Charging">>
          \o BatteryText(<<"9", "2">>) \o BatteryText(<<"9", "2">>),
      \* a line of blanks
      <<" ", " ">>,
      \* a line without '#'
      <<"-", "-", "-", " ", "log", " ", "-", "-", "-">>,
      \* month 13
      <<"2025-13-08 07:10:00", " ">> \o IdField(Device1) \o <<" ", "#", "Low Battery">>
          \o BatteryText(<<"9", "2">>) }

\* The names a log file can have: one with a 6-digit run, one without
FilenameSet ==
    { <<"cam_", "0", "0", "7", "1", "2", "2", ".txt">>, <<"log.txt">> }

\* ------------------------------------------------------------------- state
VARIABLES
    variant,           \* "app": the dashboard, "backup": the backup copy
    pc,                \* where the script is
    nfiles,            \* files opened so far in `for uploaded_file in ...`
    nlines,            \* lines read so far, all files together
    filename,          \* uploaded_file.name of the file being read
    default_camera,    \* the camera the file name gives
    line,              \* the loop variable, stripped
    all_data,          \* the dashboard's event records, in reading order
    unique_cameras,    \* the cameras seen by the dashboard
    data,              \* the backup copy's event records, in reading order
    df,                \* the records sorted by timestamp
    filtered_df,       \* the dashboard's records after the two filters
    alert_df,          \* the rows of filtered_df that are alerts
    alert_groups,      \* the closed groups of the alerts table
    current_group,     \* the open group of the alerts table, <<>> before it
    compressed_events, \* the closed rows of the compressed-events table
    current_event,     \* the five variables of the backup copy's open group
    start_time,
    start_battery,
    end_time,
    end_battery,
    i,                 \* the row the grouping loop looks at next (from 1)
    runs               \* history: the rows of every group opened so far

parseVars == <<nfiles, nlines, filename, default_camera, line>>

recordVars == <<all_data, unique_cameras, data>>

frameVars == <<df, filtered_df>>

alertVars == <<alert_df, alert_groups, current_group>>

compressVars == <<compressed_events, current_event, start_time, start_battery,
                  end_time, end_battery>>

vars == <<variant, pc, parseVars, recordVars, frameVars, alertVars, compressVars,
          i, runs>>

\* None of pandas and Python, for a variable that holds no value yet
None == <<>>

NoGroups ==
    /\ df = <<>> /\ filtered_df = <<>>
    /\ alert_df = <<>> /\ alert_groups = <<>> /\ current_group = None
    /\ compressed_events = <<>> /\ current_event = None
    /\ start_time = None /\ start_battery = None
    /\ end_time = None /\ end_battery = None
    /\ i = 0 /\ runs = <<>>

\* ------------------------------------------------- the parsing loops
\* The script starts: nothing is read yet.
Init ==
    /\ variant \in {"app", "backup"}
    /\ pc = "upload"
    /\ nfiles = 0 /\ nlines = 0
    /\ filename = None /\ default_camera = None /\ line = None
    /\ all_data = <<>> /\ unique_cameras = {} /\ data = <<>>
    /\ NoGroups

\* `for uploaded_file in uploaded_files:` takes the next file.  Every file
\* holds at least one line (''.split('\n') is ['']).
OpenFile ==
    /\ variant = "app"
    /\ pc \in {"upload", "file_end"}
    /\ nfiles < MaxFiles /\ nlines < MaxLines
    /\ \E name \in FilenameSet :
          /\ filename' = name
          /\ default_camera' = DefaultCamera(name)
    /\ nfiles' = nfiles + 1
    /\ pc' = "file_open"
    /\ UNCHANGED <<variant, nlines, line, recordVars, frameVars, alertVars,
                   compressVars, i, runs>>

\* `for line in lines:` one line of the file
ReadLine ==
    /\ variant = "app"
    /\ pc \in {"file_open", "lines"}
    /\ nlines < MaxLines
    /\ \E raw \in LineSet :
          /\ line' = Strip(raw)
          /\ all_data' = all_data \o ParseLine(Strip(raw), default_camera)
          /\ unique_cameras' =
                unique_cameras \cup
                    {r.camera : r \in Range(ParseLine(Strip(raw), default_camera))}
    /\ nlines' = nlines + 1
    /\ pc' = "lines"
    /\ UNCHANGED <<variant, nfiles, filename, default_camera, data, frameVars,
                   alertVars, compressVars, i, runs>>

\* the lines of the file are used up
EndOfFile ==
    /\ variant = "app"
    /\ pc = "lines"
    /\ pc' = "file_end"
    /\ UNCHANGED <<variant, parseVars, recordVars, frameVars, alertVars,
                   compressVars, i, runs>>

\* the files are used up: the parsing loops are over
EndOfUpload ==
    /\ variant = "app"
    /\ pc = "file_end"
    /\ pc' = "parsed"
    /\ UNCHANGED <<variant, parseVars, recordVars, frameVars, alertVars,
                   compressVars, i, runs>>

\* `if len(uploaded_files) > 0` fails, or `uploaded_file is not None` fails
NoUpload ==
    /\ pc = "upload"
    /\ pc' = "idle"
    /\ UNCHANGED <<variant, parseVars, recordVars, frameVars, alertVars,
                   compressVars, i, runs>>

\* the backup copy reads its one file
BackupOpenFile ==
    /\ variant = "backup"
    /\ pc = "upload"
    /\ nfiles' = 1
    /\ pc' = "file_open"
    /\ UNCHANGED <<variant, nlines, filename, default_camera, line, recordVars,
                   frameVars, alertVars, compressVars, i, runs>>

\* `for line in lines:` of the backup copy
BackupReadLine ==
    /\ variant = "backup"
    /\ pc \in {"file_open", "lines"}
    /\ nlines < MaxLines
    /\ \E raw \in LineSet :
          /\ line' = Strip(raw)
          /\ data' = data \o ParseLineBackup(Strip(raw))
    /\ nlines' = nlines + 1
    /\ pc' = "lines"
    /\ UNCHANGED <<variant, nfiles, filename, default_camera, all_data,
                   unique_cameras, frameVars, alertVars, compressVars, i, runs>>

BackupEndOfFile ==
    /\ variant = "backup"
    /\ pc = "lines"
    /\ pc' = "parsed"
    /\ UNCHANGED <<variant, parseVars, recordVars, frameVars, alertVars,
                   compressVars, i, runs>>


\* --------------------------------------------- sorting and the two filters
\* a frame that keeps the rows in reading order
SortValuesKeepsReadingOrder(rows) == {rows}

\* df.sort_values('timestamp'): the rows in ascending order of timestamp.  The
\* default sort is not stable, rows of one timestamp come in any order.
SortValues(rows) ==
    LET n == Len(rows)
        orders == {f \in [1..n -> 1..n] :
                      /\ \A a, b \in 1..n : a # b => f[a] # f[b]
                      /\ \A a \in 1..(n - 1) :
                            rows[f[a]].timestamp <= rows[f[a + 1]].timestamp}
    IN  {[k \in 1..n |-> rows[f[k]]] : f \in orders}

\* `if not all_data: st.error(...)`, else the sorted frame
BuildFrame ==
    /\ variant = "app"
    /\ pc = "parsed"
    /\ IF all_data = <<>>
       THEN pc' = "no_data" /\ df' = df
       ELSE pc' = "sorted" /\ df' \in SortValues(all_data)
    /\ UNCHANGED <<variant, parseVars, recordVars, filtered_df, alertVars,
                   compressVars, i, runs>>

\* the dates the two date inputs can be set to: the day of the log and the
\* day after
DateChoices(rows) ==
    {DateOf(rows[k].timestamp) : k \in 1..Len(rows)}
        \cup {DateOf(rows[k].timestamp) + 1 : k \in 1..Len(rows)}

\* date_mask and the camera multiselect
FilterRows(rows, start_date, end_date, selected_cameras) ==
    SelectSeq(rows, LAMBDA r :
        /\ DateOf(r.timestamp) >= start_date
        /\ DateOf(r.timestamp) <= end_date
        /\ r.camera \in selected_cameras)

\* the user sets the date range and chooses the cameras
Filter ==
    /\ variant = "app"
    /\ pc = "sorted"
    /\ \E start_date, end_date \in DateChoices(df) :
       \E selected_cameras \in SUBSET unique_cameras :
          filtered_df' = FilterRows(df, start_date, end_date, selected_cameras)
    /\ pc' = "filtered"
    /\ UNCHANGED <<variant, parseVars, recordVars, df, alertVars, compressVars,
                   i, runs>>

\* ------------------------------------------------------- the alerts table
\* str.contains('Low Battery|Error')
IsAlert(normalized_event) ==
    Contains(normalized_event, <<"Low Battery">>) \/ Contains(normalized_event, <<"Error">>)

\* f"{int(battery)}%": <<text>>, or <<>> when int() raises on NaN
OneReading(battery) ==
    IF battery = None THEN <<>> ELSE <<IntToStr(battery[1]) \o <<"%">>>>

\* the dictionary a group starts as: <<group>>, or <<>> when int() raises
NewGroup(row) ==
    IF OneReading(row.battery) = <<>> THEN <<>>
    ELSE <<[event |-> row.normalized_event,
            start_time |-> row.timestamp,
            end_time |-> row.timestamp,
            battery_range |-> OneReading(row.battery)[1]]>>

\* min(x, battery) and max(x, battery) of Python: a NaN second argument never
\* wins the comparison
MinWith(x, battery) == IF battery = None THEN x ELSE Min2(x, battery[1])

MaxWith(x, battery) == IF battery = None THEN x ELSE Max2(x, battery[1])

\* the text float() gets for the lower end: battery_range.split('%')[0]
LowText(battery_range) == Split(battery_range, <<"%">>)[1]

\* the text float() gets for the upper end
HighText(battery_range) ==
    IF Contains(battery_range, <<"-">>)
    THEN Split(Split(battery_range, <<"%">>)[2], <<"-">>)[1]
    ELSE Split(battery_range, <<"%">>)[1]

\* the battery_range of line 283: <<text>>, or <<>> when float() raises
ExtendedRange(battery_range, battery) ==
    LET lo == ParseNumber(LowText(battery_range))
        hi == ParseNumber(HighText(battery_range))
    IN  IF lo = <<>> \/ hi = <<>> THEN <<>>
        ELSE <<IntToStr(MinWith(lo[1], battery)) \o <<"%", " ", "-", " ">>
                 \o IntToStr(MaxWith(hi[1], battery)) \o <<"%">>>>

\* the condition of line 281
SameAlert(row, group) ==
    /\ row.normalized_event = group.event
    /\ row.timestamp - group.end_time < AlertGapSeconds

\* alert_df, and the group of its first row
AlertStart ==
    /\ variant = "app"
    /\ pc = "filtered"
    /\ alert_df' = SelectSeq(filtered_df, LAMBDA r : IsAlert(r.normalized_event))
    /\ IF alert_df' = <<>>
       THEN pc' = "done" /\ UNCHANGED <<current_group, i, runs>>
       ELSE IF NewGroup(alert_df'[1]) = <<>>
       THEN pc' = "crashed" /\ UNCHANGED <<current_group, i, runs>>
       ELSE /\ current_group' = NewGroup(alert_df'[1])[1]
            /\ i' = 2
            /\ runs' = <<<<1>>>>
            /\ pc' = "alerts"
    /\ UNCHANGED <<variant, parseVars, recordVars, frameVars, alert_groups,
                   compressVars>>

\* the row belongs to the open group
AlertExtend ==
    /\ variant = "app"
    /\ pc = "alerts"
    /\ i <= Len(alert_df)
    /\ SameAlert(alert_df[i], current_group)
    /\ LET row == alert_df[i]
           range == ExtendedRange(current_group.battery_range, row.battery)
       IN  IF range = <<>>
           THEN /\ current_group' = [current_group EXCEPT !.end_time = row.timestamp]
                /\ pc' = "crashed"
                /\ UNCHANGED <<i, runs>>
           ELSE /\ current_group' = [current_group EXCEPT !.end_time = row.timestamp,
                                                          !.battery_range = range[1]]
                /\ runs' = [runs EXCEPT ![Len(runs)] = Append(@, i)]
                /\ i' = i + 1
                /\ pc' = "alerts"
    /\ UNCHANGED <<variant, parseVars, recordVars, frameVars, alert_df, alert_groups,
                   compressVars>>

\* the row does not belong to the open group: the group is closed and the row
\* starts the next one
AlertClose ==
    /\ variant = "app"
    /\ pc = "alerts"
    /\ i <= Len(alert_df)
    /\ ~SameAlert(alert_df[i], current_group)
    /\ alert_groups' = Append(alert_groups, current_group)
    /\ IF NewGroup(alert_df[i]) = <<>>
       THEN pc' = "crashed" /\ UNCHANGED <<current_group, i, runs>>
       ELSE /\ current_group' = NewGroup(alert_df[i])[1]
            /\ runs' = Append(runs, <<i>>)
            /\ i' = i + 1
            /\ pc' = "alerts"
    /\ UNCHANGED <<variant, parseVars, recordVars, frameVars, alert_df, compressVars>>

\* after the loop the open group is closed and the table is shown
AlertFinish ==
    /\ variant = "app"
    /\ pc = "alerts"
    /\ i > Len(alert_df)
    /\ alert_groups' = Append(alert_groups, current_group)
    /\ pc' = "done"
    /\ UNCHANGED <<variant, parseVars, recordVars, frameVars, alert_df, current_group,
                   compressVars, i, runs>>

\* 'Duration (min)' of the alerts table, in tenths of a minute:
\* (seconds / 60).round(1)
DurationTenths(group) ==
    ((group.end_time - group.start_time) * 10 + SecondsPerMinute \div 2)
        \div SecondsPerMinute

\* ------------------------------------------- the compressed-events table
\* `if not data: st.error(...)`, else the sorted frame of the backup copy
BackupBuildFrame ==
    /\ variant = "backup"
    /\ pc = "parsed"
    /\ IF data = <<>>
       THEN pc' = "no_data" /\ df' = df
       ELSE pc' = "sorted" /\ df' \in SortValues(data)
    /\ UNCHANGED <<variant, parseVars, recordVars, filtered_df, alertVars,
                   compressVars, i, runs>>

\* the 'Battery Level' of a row of the table
BatteryRange(first_battery, last_battery) ==
    IF last_battery # None /\ last_battery # first_battery
    THEN IntToStr(first_battery[1]) \o <<"%", " ", "-", " ">>
            \o IntToStr(last_battery[1]) \o <<"%">>
    ELSE IF first_battery # None THEN IntToStr(first_battery[1]) \o <<"%">>
    ELSE <<"N", "/", "A">>

\* the row the open group gives
CompressedRow ==
    [Start_Time |-> Strftime(start_time),
     End_Time |-> Strftime(end_time),
     Event |-> current_event,
     Battery_Level |-> BatteryRange(start_battery, end_battery)]

\* the condition of line 459
SameEvent(row) ==
    /\ row.event = current_event
    /\ (row.battery # None) = (start_battery # None)

\* the group of the first row
CompressStart ==
    /\ variant = "backup"
    /\ pc = "sorted"
    /\ current_event' = df[1].event
    /\ start_time' = df[1].timestamp
    /\ start_battery' = df[1].battery
    /\ end_time' = df[1].timestamp
    /\ end_battery' = df[1].battery
    /\ i' = 2
    /\ runs' = <<<<1>>>>
    /\ pc' = "compress"
    /\ UNCHANGED <<variant, parseVars, recordVars, frameVars, alertVars,
                   compressed_events>>

\* same event: the range is extended
CompressExtend ==
    /\ variant = "backup"
    /\ pc = "compress"
    /\ i <= Len(df)
    /\ SameEvent(df[i])
    /\ end_time' = df[i].timestamp
    /\ end_battery' = IF df[i].battery # None THEN df[i].battery ELSE end_battery
    /\ runs' = [runs EXCEPT ![Len(runs)] = Append(@, i)]
    /\ i' = i + 1
    /\ UNCHANGED <<variant, pc, parseVars, recordVars, frameVars, alertVars,
                   compressed_events, current_event, start_time, start_battery>>

\* new event: the row of the open group is added and the next group starts
CompressClose ==
    /\ variant = "backup"
    /\ pc = "compress"
    /\ i <= Len(df)
    /\ ~SameEvent(df[i])
    /\ compressed_events' = Append(compressed_events, CompressedRow)
    /\ current_event' = df[i].event
    /\ start_time' = df[i].timestamp
    /\ start_battery' = df[i].battery
    /\ end_time' = df[i].timestamp
    /\ end_battery' = df[i].battery
    /\ runs' = Append(runs, <<i>>)
    /\ i' = i + 1
    /\ UNCHANGED <<variant, pc, parseVars, recordVars, frameVars, alertVars>>

\* after the loop: the row of the last group
CompressFinish ==
    /\ variant = "backup"
    /\ pc = "compress"
    /\ i > Len(df)
    /\ compressed_events' = Append(compressed_events, CompressedRow)
    /\ pc' = "done"
    /\ UNCHANGED <<variant, parseVars, recordVars, frameVars, alertVars,
                   current_event, start_time, start_battery, end_time, end_battery,
                   i, runs>>

Next ==
    \/ OpenFile
    \/ ReadLine
    \/ EndOfFile
    \/ EndOfUpload
    \/ NoUpload
    \/ BackupOpenFile
    \/ BackupReadLine
    \/ BackupEndOfFile
    \/ BuildFrame
    \/ Filter
    \/ AlertStart
    \/ AlertExtend
    \/ AlertClose
    \/ AlertFinish
    \/ BackupBuildFrame
    \/ CompressStart
    \/ CompressExtend
    \/ CompressClose
    \/ CompressFinish

Spec == Init /\ [][Next]_vars

\* ------------------------------------------------ properties of the parser
\* the event records of the running script
Records == IF variant = "app" THEN all_data ELSE data

\* the text before the first '#' of a line that has one, without the blanks
\* around it
TimestampField(l) ==
    LET k == CHOOSE h \in 1..Len(l) : l[h] = "#" /\ \A m \in 1..(h - 1) : l[m] # "#"
    IN  Strip(SubSeq(l, 1, k - 1))

\* the text after the second '#' of a line, "Unknown" when there is none
EventText(l) == FullEvent(Split(l, <<"#">>))

\* the date-times that are written as YYYY-MM-DD HH:MM:SS and exist
ValidTimestamps ==
    {"2025-09-08 07:10:00", "2025-9-8 7:10:00", "2025-09-08 07:12:00",
     "2025-09-08 07:15:00"}

\* a line that raises inside the try for another reason than its timestamp:
\* in the dashboard, int() of a battery text that isdigit() accepts
RaisesOtherwise(l) == variant = "app" /\ Battery(EventText(l)).raised

\* the bad lines of C7
Unparsable(l) ==
    \/ l = <<>>
    \/ "#" \notin Range(l)
    \/ TimestampField(l) \notin {<<t>> : t \in ValidTimestamps}
    \/ RaisesOtherwise(l)

\* what reading one line may do to the records
C7_Step ==
    (nlines' = nlines + 1) =>
        IF Unparsable(line')
        THEN Records' = Records
        ELSE /\ Len(Records') = Len(Records) + 1
             /\ SubSeq(Records', 1, Len(Records)) = Records
             /\ <<Last(Records').timestamp>> = Strptime(TimestampField(line'))
             /\ Last(Records').event = EventText(line')

\* C7: parsing never aborts on a bad line.  The records start empty; a line
\* that is blank, has no '#', has a malformed timestamp or raises otherwise
\* leaves the records as they are; every other line appends exactly one record
\* (its own, after the records of the lines before it) and removes none.  So
\* the records are those of the parsable lines in input order, and none when
\* every line is bad.
C7_BadLineSkipped == (all_data = <<>> /\ data = <<>>) /\ [][C7_Step]_vars

\* a bad line was just read between records: one record was there before it
\* and is still there
C7_Witness ==
    /\ pc = "lines" /\ nlines = 2
    /\ line # <<>> /\ Unparsable(line)
    /\ Len(Records) = 1

\* the places of a line where an '#ID:XXXXXX-YYYYYY' field starts
IdFieldPlaces(l) ==
    {k \in 1..(Len(l) - 14) :
        /\ SubSeq(l, k, k + 1) = <<"#", "ID:">>
        /\ \A m \in (k + 2)..(k + 7) : l[m] \in DecimalDigits
        /\ l[k + 8] = "-"
        /\ \A m \in (k + 9)..(k + 14) : l[m] \in DecimalDigits}

\* the places of a file name where a run of 6 digits starts
DigitRunPlaces(name) ==
    {k \in 1..(Len(name) - 5) : \A m \in k..(k + 5) : name[m] \in DecimalDigits}

FirstOf(places) == CHOOSE k \in places : \A m \in places : k <= m

\* the device id the resolution order gives a line of a file
ResolvedDevice(l, name) ==
    IF IdFieldPlaces(l) # {}
    THEN SubSeq(l, FirstOf(IdFieldPlaces(l)) + 2, FirstOf(IdFieldPlaces(l)) + 7)
    ELSE IF DigitRunPlaces(name) # {}
    THEN SubSeq(name, FirstOf(DigitRunPlaces(name)), FirstOf(DigitRunPlaces(name)) + 5)
    ELSE <<"Unknown">>

\* C8: the record of every parsed line of the dashboard carries the device id
\* of the resolution order: the first 6 digits of the line's '#ID:' field,
\* else the 6-digit run of the file name, else "Unknown"; a parsable line gets
\* its record whatever its id field looks like.
C8_DeviceResolution ==
    (variant = "app" /\ pc = "lines" /\ ~Unparsable(line)) =>
        /\ all_data # <<>>
        /\ Last(all_data).camera = ResolvedDevice(line, filename)
        /\ Last(all_data).camera \in unique_cameras

\* a line with an id field was read from a file whose name holds another
\* 6-digit run, and the record carries the line's id
C8_Witness ==
    /\ variant = "app" /\ pc = "lines" /\ ~Unparsable(line)
    /\ IdFieldPlaces(line) # {} /\ DigitRunPlaces(filename) # {}
    /\ Last(all_data).camera = Device1
    /\ default_camera # Device1

\* a line with '#' and a good timestamp whose text after "Battery Level -" is
\* not a number written in digits
NonDigitBattery(l) ==
    /\ l # <<>> /\ "#" \in Range(l)
    /\ TimestampField(l) \in {<<t>> : t \in ValidTimestamps}
    /\ Contains(EventText(l), <<"Battery Level -">>)
    /\ ~IsDecimal(BatteryStr(EventText(l)))

\* C9: the battery of every event record is absent or an integer of 0..100,
\* and a line whose battery text is not digits gets its record, without a
\* battery.
C9_BatteryInRange ==
    /\ \A k \in 1..Len(Records) :
          Records[k].battery = None \/ Records[k].battery[1] \in 0..100
    /\ (pc = "lines" /\ NonDigitBattery(line)) =>
          /\ Records # <<>>
          /\ Last(Records).event = EventText(line)
          /\ Last(Records).battery = None

\* C11: normalizing an already-normalized event returns it unchanged: the
\* normalized_event of every record of the dashboard, and of the event text of
\* every line it reads, is its own normalization.
C11_NormalizationIdempotent ==
    variant = "app" =>
        /\ \A k \in 1..Len(all_data) :
              NormalizedEvent(all_data[k].normalized_event) = all_data[k].normalized_event
        /\ (pc = "lines" /\ "#" \in Range(line)) =>
              NormalizedEvent(NormalizedEvent(EventText(line)))
                  = NormalizedEvent(EventText(line))

\* a record whose event holds the battery suffix twice was normalized to the
\* text before the first suffix
C11_Witness ==
    /\ variant = "app"
    /\ \E k \in 1..Len(all_data) :
          /\ Len(Split(all_data[k].event, BatterySuffix)) = 3
          /\ all_data[k].normalized_event = <<"Battery Charging">>

\* ---------------------------------------- properties of the grouping passes
\* the sorted event records the grouping pass runs over
Input == IF variant = "app" THEN alert_df ELSE df

\* the pass is over: its table is shown, or an exception stopped the script
PassOver == pc \in {"done", "crashed"}

\* the intervals of the table; an exception leaves no table
Emitted ==
    IF pc # "done" THEN <<>>
    ELSE IF variant = "app" THEN alert_groups ELSE compressed_events

\* the rows of each emitted interval
MemberRuns == IF pc # "done" THEN <<>> ELSE runs

RECURSIVE Flatten(_)
Flatten(seqs) == IF seqs = <<>> THEN <<>> ELSE seqs[1] \o Flatten(Tail(seqs))

\* C1: when the pass is over every record is in exactly one emitted interval,
\* and the member runs of the intervals, one after the other in output order,
\* are the input in its order.
C1_RoundTrip ==
    PassOver =>
        /\ Len(MemberRuns) = Len(Emitted)
        /\ Flatten(MemberRuns) = [k \in 1..Len(Input) |-> k]

\* the event of a record as the spec normalizes it
NormalizedOf(row) ==
    IF variant = "app" THEN row.normalized_event ELSE NormalizedEvent(row.event)

\* The device of a record.  The backup copy keeps none: of the lines of
\* LineSet, those that give two different rows with one normalized event all
\* come from camera 007120.
DeviceOf(row) == IF variant = "app" THEN row.camera ELSE Device1

\* the grouping key (normalized_event, device_id) of the k-th interval
GroupKey(k) == <<NormalizedOf(Input[runs[k][1]]), DeviceOf(Input[runs[k][1]])>>

\* C2: no two consecutive intervals of the table share the grouping key.
C2_Maximality ==
    pc = "done" =>
        \A k \in 1..(Len(Emitted) - 1) : GroupKey(k) # GroupKey(k + 1)

\* the battery_range of the k-th interval
RangeOf(k) ==
    IF variant = "app" THEN alert_groups[k].battery_range
    ELSE compressed_events[k].Battery_Level

\* the battery values observed in the rows of a run
Observed(run) ==
    {Input[run[m]].battery[1] : m \in {n \in 1..Len(run) : Input[run[n]].battery # None}}

MinOf(S) == CHOOSE x \in S : \A y \in S : x <= y

MaxOf(S) == CHOOSE x \in S : \A y \in S : x >= y

\* "v%" when the least and the greatest value are equal, else "min% - max%"
RangeText(S) ==
    IF MinOf(S) = MaxOf(S) THEN IntToStr(MinOf(S)) \o <<"%">>
    ELSE IntToStr(MinOf(S)) \o <<"%", " ", "-", " ">> \o IntToStr(MaxOf(S)) \o <<"%">>

\* C3: the battery_range of every interval is the min/max of the battery
\* values observed in its run: "v%" when they are equal, else "min% - max%".
C3_BatteryRangeIsMinMax ==
    pc = "done" =>
        \A k \in 1..Len(Emitted) :
            Observed(runs[k]) # {} => RangeOf(k) = RangeText(Observed(runs[k]))

\* the row the script was at when the exception was raised
CrashRow == IF current_group = None THEN alert_df[1] ELSE alert_df[i]

\* C4: the pass does not fail at a row without a battery reading, and the
\* battery_range of an interval is "N/A" exactly when no row of its run has a
\* battery reading.
C4_MissingBatteryIsNoError ==
    /\ pc = "crashed" => CrashRow.battery # None
    /\ pc = "done" =>
          \A k \in 1..Len(Emitted) :
              (RangeOf(k) = <<"N", "/", "A">>) <=> (Observed(runs[k]) = {})

\* the row starts a run
StartsRun(m) == \E k \in 1..Len(runs) : runs[k][1] = m

\* C5: of two adjacent records with the same event text and different device
\* ids, the second starts a new interval.
C5_DeviceChangeSplits ==
    (variant = "app" /\ pc = "done") =>
        \A m \in 2..Len(alert_df) :
            (/\ alert_df[m].event = alert_df[m - 1].event
             /\ alert_df[m].camera # alert_df[m - 1].camera) => StartsRun(m)

\* two records of one device whose event text differs only in the battery
\* reading
DifferInBatteryOnly(a, b) ==
    /\ NormalizedOf(a) = NormalizedOf(b)
    /\ DeviceOf(a) = DeviceOf(b)
    /\ a.battery # None /\ b.battery # None /\ a.battery # b.battery

\* the timestamps of the k-th interval as the table shows them
StartOf(k) ==
    IF variant = "app" THEN alert_groups[k].start_time ELSE compressed_events[k].Start_Time

EndOf(k) ==
    IF variant = "app" THEN alert_groups[k].end_time ELSE compressed_events[k].End_Time

\* a timestamp as the table of the variant shows it
Shown(dt) == IF variant = "app" THEN dt ELSE Strftime(dt)

\* C6: two consecutive records of one device that differ only in the battery
\* reading are compressed into one interval; when they are its whole run, its
\* battery_range is "min% - max%" of the two readings and it spans from the
\* first timestamp to the second.
C6_BatteryOnlyDifferenceCompressed ==
    (variant = "backup" /\ pc = "done") =>
        \A m \in 2..Len(Input) :
            DifferInBatteryOnly(Input[m - 1], Input[m]) =>
                /\ ~StartsRun(m)
                /\ \A k \in 1..Len(Emitted) :
                      runs[k] = <<m - 1, m>> =>
                          /\ RangeOf(k) = RangeText({Input[m - 1].battery[1], Input[m].battery[1]})
                          /\ StartOf(k) = Shown(Input[m - 1].timestamp)
                          /\ EndOf(k) = Shown(Input[m].timestamp)

\* C10: a run of one record gives an interval with start_time = end_time
\* (duration 0) and the record's reading as battery_range, "N/A" when it has
\* none; a single record as the whole input gives exactly one interval.
C10_SingletonRun ==
    PassOver =>
        /\ Len(Input) = 1 => Len(Emitted) = 1
        /\ \A k \in 1..Len(Emitted) :
              Len(runs[k]) = 1 =>
                  /\ StartOf(k) = Shown(Input[runs[k][1]].timestamp)
                  /\ EndOf(k) = StartOf(k)
                  /\ variant = "app" => DurationTenths(alert_groups[k]) = 0
                  /\ RangeOf(k) =
                        IF Input[runs[k][1]].battery = None THEN <<"N", "/", "A">>
                        ELSE IntToStr(Input[runs[k][1]].battery[1]) \o <<"%">>

\* the rows are in ascending order of timestamp
Chronological(rows) ==
    \A a, b \in 1..Len(rows) : a < b => rows[a].timestamp <= rows[b].timestamp

\* two sequences hold the same records, each as often
SameRecords(rows, others) ==
    /\ Len(rows) = Len(others)
    /\ \A r \in Range(rows) \cup Range(others) :
          Cardinality({k \in 1..Len(rows) : rows[k] = r})
              = Cardinality({k \in 1..Len(others) : others[k] = r})

\* the intervals closed so far, in output order
Closed == IF variant = "app" THEN alert_groups ELSE compressed_events

\* the first and the last record of the k-th interval
FirstMember(k) == Input[runs[k][1]]

LastMember(k) == Input[Last(runs[k])]

\* C12: the records of all the files are merged and sorted by timestamp before
\* the grouping pass, whatever the order of the files and of their timestamps:
\* the frame holds the parsed records in ascending order of timestamp, the
\* intervals come in the chronological order of their first members, and every
\* interval has start_time <= end_time (a duration that is not negative).
C12_ChronologicalIntervals ==
    /\ pc \in {"sorted", "filtered", "alerts", "compress", "done", "crashed"} =>
          /\ SameRecords(df, Records)
          /\ Chronological(df)
    /\ \A k \in 1..Len(Closed) :
          /\ StartOf(k) = Shown(FirstMember(k).timestamp)
          /\ EndOf(k) = Shown(LastMember(k).timestamp)
          /\ FirstMember(k).timestamp <= LastMember(k).timestamp
          /\ variant = "app" => DurationTenths(alert_groups[k]) >= 0
          /\ k > 1 => FirstMember(k - 1).timestamp <= FirstMember(k).timestamp

\* two files of one line each, the record of the second file earlier than the
\* record of the first, and the table holds the two intervals in the order of
\* their times
C12_Witness ==
    /\ variant = "app" /\ pc = "done"
    /\ nfiles = 2 /\ nlines = 2 /\ Len(all_data) = 2
    /\ all_data[1].timestamp > all_data[2].timestamp
    /\ Len(alert_groups) = 2
    /\ alert_groups[1].start_time = all_data[2].timestamp
    /\ alert_groups[2].start_time = all_data[1].timestamp

\* the grouping key (normalized_event, device_id) of a record
KeyOf(row) == <<NormalizedOf(row), DeviceOf(row)>>

\* the adjacent pairs of records whose grouping keys differ
KeyChanges == {m \in 2..Len(Input) : KeyOf(Input[m]) # KeyOf(Input[m - 1])}

\* the group the pass holds open
OpenGroup == IF variant = "app" THEN current_group ELSE current_event

\* C13: an empty input gives no interval; while the pass runs over a non-empty
\* input exactly one group is open; the last open group is emitted after the
\* loop, and the number of emitted intervals is one plus the number of adjacent
\* pairs of records whose grouping keys differ.
C13_IntervalCount ==
    /\ pc \in {"alerts", "compress"} =>
          /\ OpenGroup # None
          /\ Len(runs) = Len(Closed) + 1
    /\ PassOver =>
          Len(Emitted) = IF Input = <<>> THEN 0 ELSE 1 + Cardinality(KeyChanges)

\* the m-th alert has the event of the alert before it and comes less than 300
\* seconds after it
WithinGap(m) ==
    /\ alert_df[m].normalized_event = alert_df[m - 1].normalized_event
    /\ alert_df[m].timestamp - alert_df[m - 1].timestamp < AlertGapSeconds

\* the alerts the loop has dealt with: those before row i, and row i when the
\* exception was raised at it
Handled == {m \in 2..Len(alert_df) : m < i \/ (pc = "crashed" /\ m = i)}

\* the intervals of the table that hold the m-th alert
GroupsOf(m) == {k \in 1..Len(Emitted) : \E n \in 1..Len(runs[k]) : runs[k][n] = m}

\* C14: in the alerts table a record extends the open group only when it has
\* the group's event and comes less than 300 seconds after the group's
\* end_time; otherwise the open group is closed and a new group starts from
\* the record; two consecutive alerts of one event 300 seconds or more apart
\* are in different groups of the table.
C14_AlertGapRule ==
    variant = "app" =>
        /\ (pc = "alerts" /\ i <= Len(alert_df)) =>
              current_group.end_time = alert_df[i - 1].timestamp
        /\ \A k \in 1..Len(runs) : \A n \in 2..Len(runs[k]) :
              runs[k][n] = runs[k][n - 1] + 1 /\ WithinGap(runs[k][n])
        /\ \A m \in Handled :
              ~WithinGap(m) =>
                  \E k \in 2..Len(runs) :
                      /\ runs[k][1] = m
                      /\ Len(alert_groups) >= k - 1
                      /\ Last(runs[k - 1]) = m - 1
        /\ PassOver =>
              \A m \in 2..Len(alert_df) :
                  (/\ alert_df[m].normalized_event = alert_df[m - 1].normalized_event
                   /\ alert_df[m].timestamp - alert_df[m - 1].timestamp >= AlertGapSeconds)
                      => \E k \in GroupsOf(m - 1) : GroupsOf(m) = {k + 1}

====
